---- MODULE Spec2Model ----
(***************************************************************************)
(* Model of the two programs of the repository:                            *)
(*   ingest.py     - the incremental ingestion run (Spec)                  *)
(*   privateGPT.py - start-up and the interactive query loop (SpecQA)      *)
(* Strings that the code takes apart (paths, extensions, queries, numbers  *)
(* in the environment) are sequences of one-character strings.             *)
(***************************************************************************)
EXTENDS Integers, Sequences, FiniteSets, TLC

(***************************************************************************)
(* Bounds of the model.                                                    *)
(***************************************************************************)
\* number of successive ingestion runs
MaxRuns == 3
\* records per source path already in the store when the first run starts
MaxStored == 1
\* inputs read by the query loop
MaxQueries == 2
\* length of a typed query
MaxLen == 2
\* the environment holds the decimal text of 1..MaxConfig
MaxConfig == 20

(***************************************************************************)
(* str.lower / str.upper / rsplit on character sequences.                  *)
(***************************************************************************)
LowerLetters == << "a","b","c","d","e","f","g","h","i","j","k","l","m",
                   "n","o","p","q","r","s","t","u","v","w","x","y","z" >>

UpperLetters == << "A","B","C","D","E","F","G","H","I","J","K","L","M",
                   "N","O","P","Q","R","S","T","U","V","W","X","Y","Z" >>

Range(s) == { s[i] : i \in DOMAIN s }

IndexOf(c, s) == CHOOSE i \in DOMAIN s : s[i] = c

lower_char(c) == IF c \in Range(UpperLetters)
                 THEN LowerLetters[IndexOf(c, UpperLetters)] ELSE c

upper_char(c) == IF c \in Range(LowerLetters)
                 THEN UpperLetters[IndexOf(c, LowerLetters)] ELSE c

lower(s) == [ i \in DOMAIN s |-> lower_char(s[i]) ]

upper(s) == [ i \in DOMAIN s |-> upper_char(s[i]) ]

\* s.rsplit(".", 1)[-1]: what follows the last dot, the whole of s without one
rsplit_last(s) ==
    LET dots == { i \in DOMAIN s : s[i] = "." }
    IN  IF dots = {} THEN s
        ELSE LET d == CHOOSE i \in dots : \A j \in dots : j <= i
             IN  SubSeq(s, d + 1, Len(s))

EndsWith(s, suffix) ==
    /\ Len(s) >= Len(suffix)
    /\ SubSeq(s, Len(s) - Len(suffix) + 1, Len(s)) = suffix

(***************************************************************************)
(* ingest.py: the loader registry.                                         *)
(***************************************************************************)
LOADER_MAPPING ==
    ( << ".","c","s","v" >>     :> "CSVLoader" ) @@
    ( << ".","d","o","c" >>     :> "UnstructuredWordDocumentLoader" ) @@
    ( << ".","d","o","c","x" >> :> "UnstructuredWordDocumentLoader" ) @@
    ( << ".","e","n","e","x" >> :> "EverNoteLoader" ) @@
    ( << ".","e","p","u","b" >> :> "UnstructuredEPubLoader" ) @@
    ( << ".","h","t","m","l" >> :> "UnstructuredHTMLLoader" ) @@
    ( << ".","m","d" >>         :> "UnstructuredMarkdownLoader" ) @@
    ( << ".","o","d","t" >>     :> "UnstructuredODTLoader" ) @@
    ( << ".","p","p","t" >>     :> "UnstructuredPowerPointLoader" ) @@
    ( << ".","p","p","t","x" >> :> "UnstructuredPowerPointLoader" ) @@
    ( << ".","p","d","f" >>     :> "PyMuPDFLoader" ) @@
    ( << ".","t","x","t" >>     :> "TextLoader" )

\* the order in which "for ext in LOADER_MAPPING" visits the keys
LoaderKeys ==
    << << ".","c","s","v" >>, << ".","d","o","c" >>, << ".","d","o","c","x" >>,
       << ".","e","n","e","x" >>, << ".","e","p","u","b" >>,
       << ".","h","t","m","l" >>, << ".","m","d" >>, << ".","o","d","t" >>,
       << ".","p","p","t" >>, << ".","p","p","t","x" >>, << ".","p","d","f" >>,
       << ".","t","x","t" >> >>

(***************************************************************************)
(* The source root: the paths that may exist under it, in directory order, *)
(* and what a parser makes of a file's content.                            *)
(***************************************************************************)
Listing == << << "a",".","t","x","t" >>,
              << "b",".","P","D","F" >>,
              << "c",".","T","x","t" >> >>

Paths == Range(Listing)

\* "corrupt": the parser raises; "empty": it returns no Document;
\* "blank": one Document that splits into no chunk; "text": one Document
\* that splits into two chunks
Contents == { "corrupt", "empty", "blank", "text" }

DocumentsOf(content) == IF content = "empty" THEN 0 ELSE 1

ChunksOf(content) == IF content = "text" THEN 2 ELSE 0

VARIABLES
    platform,        \* "posix" or "nt": how glob compares the case of names
    source_directory,\* path -> content, or "absent"
    disk,            \* path -> records persisted for that source
    db,              \* path -> records of the opened store
    collection,      \* db.get() taken when the run opened the store
    pc,              \* phase of the current run
    run,             \* number of the current run
    completed,       \* runs that ended with exit status 0 so far
    ignored_files,   \* sources handed to process_documents
    all_files,       \* load_documents: the discovered paths
    filtered_files,  \* load_documents: the paths handed to the pool
    remaining,       \* indices of filtered_files whose result is not in yet
    results,         \* path -> Documents received from its loader
    texts,           \* path -> chunks produced from its Documents
    exit_status,     \* "running", 0 (normal exit) or 1 (uncaught exception)
    \* privateGPT.py
    environ,         \* MODEL_TYPE, MODEL_N_BATCH, TARGET_SOURCE_CHUNKS
    qa_pc,           \* where privateGPT.py is
    model_n_batch,   \* line 25
    target_source_chunks, \* line 26
    retriever,       \* line 44: the k bound into the retriever
    llm,             \* lines 50-61: the backend built, with its n_batch
    error,           \* the uncaught exception, if any
    query,           \* line 70: the input read last
    prompts,         \* inputs read so far
    retrievals,      \* the k of every retrieval made, in order
    answers          \* answers printed so far

ingest_vars == << platform, source_directory, disk, db, collection, pc, run,
                  completed, ignored_files, all_files, filtered_files,
                  remaining, results, texts, exit_status >>

qa_vars == << environ, qa_pc, model_n_batch, target_source_chunks, retriever,
              llm, error, query, prompts, retrievals, answers >>

vars == << ingest_vars, qa_vars >>

NoRecords == [ p \in Paths |-> 0 ]

KnownSources(store) == { p \in Paths : store[p] > 0 }

\* bool(db.get()['documents'])
does_vectorstore_exist(store) == KnownSources(store) # {}

\* the append branch calling process_documents() without the stored sources
ignored_sources_none(store) == {}

\* lines 144-150, 155: the argument of process_documents
ignored_sources(store) ==
    IF does_vectorstore_exist(store) THEN KnownSources(store) ELSE {}

(***************************************************************************)
(* ingest.py: load_documents, process_documents, main.                     *)
(***************************************************************************)
Present == { p \in Paths : source_directory[p] # "absent" }

\* os.path.normcase, which fnmatch applies to the name and to the pattern
normcase(s) == IF platform = "nt" THEN lower(s) ELSE s

\* glob.glob(os.path.join(source_dir, "**/*" + suffix), recursive=True):
\* the names ending in the suffix; a name starting with a dot is hidden
\* from a pattern that does not start with one
glob(suffix) ==
    SelectSeq(Listing,
              LAMBDA p : /\ p \in Present
                         /\ p[1] # "."
                         /\ EndsWith(normcase(p), normcase(suffix)))

RECURSIVE discover(_)
\* lines 93-97: for every key, the lower-case pattern then the upper-case one
discover(k) ==
    IF k > Len(LoaderKeys) THEN << >>
    ELSE glob(lower(LoaderKeys[k])) \o glob(upper(LoaderKeys[k]))
         \o discover(k + 1)

\* the filter dropped: every discovered file is handed to the pool
filter_ignored_none(files, ignored) == files

\* line 99
filter_ignored(files, ignored) == SelectSeq(files, LAMBDA p : p \notin ignored)

\* lines 77-86: the loader chosen for the path and what loading it gives
load_single_document(file_path) ==
    LET ext == << "." >> \o lower(rsplit_last(file_path))
    IN  IF ext \in DOMAIN LOADER_MAPPING
        THEN [ loader |-> LOADER_MAPPING[ext],
               raised |-> source_directory[file_path] = "corrupt",
               docs   |-> DocumentsOf(source_directory[file_path]) ]
        ELSE [ loader |-> "ValueError", raised |-> TRUE, docs |-> 0 ]

\* RecursiveCharacterTextSplitter.split_documents: chunks per source
split_documents(documents) ==
    [ p \in Paths |-> documents[p] * ChunksOf(source_directory[p]) ]

\* "if not documents" written as a test that an empty list does not meet
NoDocuments_never(documents) == FALSE

\* line 117: "not documents"
NoDocuments(documents) == \A p \in Paths : documents[p] = 0

Add(store, chunks) == [ p \in Paths |-> store[p] + chunks[p] ]

\* the state before the first run: any source root, any persisted store
IngestInit ==
    /\ platform \in { "posix", "nt" }
    /\ source_directory \in [ Paths -> Contents \cup { "absent" } ]
    /\ disk \in [ Paths -> 0..MaxStored ]
    /\ db = disk
    /\ collection = disk
    /\ pc = "Idle"
    /\ run = 1
    /\ completed = 0
    /\ ignored_files = {}
    /\ all_files = << >>
    /\ filtered_files = << >>
    /\ remaining = {}
    /\ results = NoRecords
    /\ texts = NoRecords
    /\ exit_status = "running"

\* lines 139-150, 155: open the store, choose append or create
Start ==
    /\ pc = "Idle"
    /\ db' = disk
    /\ collection' = disk
    /\ ignored_files' = ignored_sources(disk)
    /\ pc' = "Scanning"
    /\ UNCHANGED << platform, source_directory, disk, run, completed,
                    all_files, filtered_files, remaining, results, texts,
                    exit_status >>
    /\ UNCHANGED qa_vars

\* lines 93-97
Discover ==
    /\ pc = "Scanning"
    /\ all_files' = discover(1)
    /\ pc' = "Deduplicating"
    /\ UNCHANGED << platform, source_directory, disk, db, collection, run,
                    completed, ignored_files, filtered_files, remaining,
                    results, texts, exit_status >>
    /\ UNCHANGED qa_vars

\* line 99, and the pool receives the tasks (line 105)
Filter ==
    /\ pc = "Deduplicating"
    /\ filtered_files' = filter_ignored(all_files, ignored_files)
    /\ remaining' = DOMAIN filtered_files'
    /\ pc' = "Loading"
    /\ UNCHANGED << platform, source_directory, disk, db, collection, run,
                    completed, ignored_files, all_files, results, texts,
                    exit_status >>
    /\ UNCHANGED qa_vars

\* lines 105-107: the next result of imap_unordered, of any task still out;
\* a task that raised re-raises in the parent, which nothing catches
LoadOne ==
    /\ pc = "Loading"
    /\ \E i \in remaining :
          LET r == load_single_document(filtered_files[i])
          IN  IF r.raised
              THEN /\ pc' = "Aborted"
                   /\ exit_status' = 1
                   /\ UNCHANGED << remaining, results >>
              ELSE /\ results' = [ results EXCEPT
                                     ![filtered_files[i]] = @ + r.docs ]
                   /\ remaining' = remaining \ { i }
                   /\ UNCHANGED << pc, exit_status >>
    /\ UNCHANGED << platform, source_directory, disk, db, collection, run,
                    completed, ignored_files, all_files, filtered_files,
                    texts >>
    /\ UNCHANGED qa_vars

\* lines 108, 116-120: all results are in
LoadDone ==
    /\ pc = "Loading"
    /\ remaining = {}
    /\ IF NoDocuments(results)
       THEN /\ pc' = "NothingNew"
            /\ exit_status' = 0
            /\ completed' = completed + 1
       ELSE /\ pc' = "Chunking"
            /\ UNCHANGED << exit_status, completed >>
    /\ UNCHANGED << platform, source_directory, disk, db, collection, run,
                    ignored_files, all_files, filtered_files, remaining,
                    results, texts >>
    /\ UNCHANGED qa_vars

\* lines 122-125
Split ==
    /\ pc = "Chunking"
    /\ texts' = split_documents(results)
    /\ pc' = "Embedding"
    /\ UNCHANGED << platform, source_directory, disk, db, collection, run,
                    completed, ignored_files, all_files, filtered_files,
                    remaining, results, exit_status >>
    /\ UNCHANGED qa_vars

\* the records written from inside the chunking step, which then resumes
AddDocuments_rechunk ==
    /\ pc = "Embedding"
    /\ db' = Add(db, texts)
    /\ pc' = "Chunking"
    /\ UNCHANGED << platform, source_directory, disk, collection, run,
                    completed, ignored_files, all_files, filtered_files,
                    remaining, results, texts, exit_status >>
    /\ UNCHANGED qa_vars

\* lines 151-152, 156-158: embed the chunks and add one record per chunk
AddDocuments ==
    /\ pc = "Embedding"
    /\ db' = Add(db, texts)
    /\ pc' = "Persisting"
    /\ UNCHANGED << platform, source_directory, disk, collection, run,
                    completed, ignored_files, all_files, filtered_files,
                    remaining, results, texts, exit_status >>
    /\ UNCHANGED qa_vars

\* lines 151-152, 156-158: the embedding model or the store raises
AddFails ==
    /\ pc = "Embedding"
    /\ pc' = "Aborted"
    /\ exit_status' = 1
    /\ UNCHANGED << platform, source_directory, disk, db, collection, run,
                    completed, ignored_files, all_files, filtered_files,
                    remaining, results, texts >>
    /\ UNCHANGED qa_vars

\* the completion message without db.persist()
Persist_noflush ==
    /\ pc = "Persisting"
    /\ pc' = "Done"
    /\ exit_status' = 0
    /\ completed' = completed + 1
    /\ UNCHANGED << platform, source_directory, disk, db, collection, run,
                    ignored_files, all_files, filtered_files, remaining,
                    results, texts >>
    /\ UNCHANGED qa_vars

\* lines 160-162: db.persist(), then the completion message
Persist ==
    /\ pc = "Persisting"
    /\ disk' = db
    /\ pc' = "Done"
    /\ exit_status' = 0
    /\ completed' = completed + 1
    /\ UNCHANGED << platform, source_directory, db, collection, run,
                    ignored_files, all_files, filtered_files, remaining,
                    results, texts >>
    /\ UNCHANGED qa_vars

\* lines 165-166: the script is run again on the same source root
NextRun ==
    /\ pc \in { "Done", "NothingNew", "Aborted" }
    /\ run < MaxRuns
    /\ run' = run + 1
    /\ pc' = "Idle"
    /\ db' = disk
    /\ collection' = disk
    /\ ignored_files' = {}
    /\ all_files' = << >>
    /\ filtered_files' = << >>
    /\ remaining' = {}
    /\ results' = NoRecords
    /\ texts' = NoRecords
    /\ exit_status' = "running"
    /\ UNCHANGED << platform, source_directory, disk, completed >>
    /\ UNCHANGED qa_vars

(***************************************************************************)
(* privateGPT.py: the environment, start-up and the query loop.            *)
(***************************************************************************)
Digits == << "0","1","2","3","4","5","6","7","8","9" >>

RECURSIVE str(_)
\* the decimal text of a natural number, as the .env file holds it
str(n) == IF n < 10 THEN << Digits[n + 1] >>
          ELSE str(n \div 10) \o << Digits[(n % 10) + 1] >>

RECURSIVE int_digits(_, _, _)
int_digits(text, base, acc) ==
    IF text = << >> THEN acc
    ELSE int_digits(Tail(text), base,
                    acc * base + (IndexOf(Head(text), Digits) - 1))

\* Python's int(text, base) on a text of digits: ValueError when the text
\* is empty or holds a digit that the base does not have
int(text, base) ==
    IF /\ text # << >>
       /\ \A i \in DOMAIN text :
             /\ text[i] \in Range(Digits)
             /\ IndexOf(text[i], Digits) - 1 < base
    THEN [ raised |-> FALSE, value |-> int_digits(text, base, 0) ]
    ELSE [ raised |-> TRUE, value |-> 0 ]

\* lines 25-26: the second argument of int()
BatchBase == 8

ChunksBase == 4

Whitespace == { " ", "\t", "\n", "\r" }

RECURSIVE lstrip(_)
lstrip(s) == IF s # << >> /\ Head(s) \in Whitespace THEN lstrip(Tail(s)) ELSE s

RECURSIVE rstrip(_)
rstrip(s) == IF s # << >> /\ s[Len(s)] \in Whitespace
             THEN rstrip(SubSeq(s, 1, Len(s) - 1)) ELSE s

\* the test "query == ''" without the strip
strip_none(s) == s

\* str.strip()
strip(s) == rstrip(lstrip(s))

\* line 73: the sentinel
Exit == << "e","x","i","t" >>

ModelTypes == { "LlamaCpp", "GPT4ALL", "GPT4All", "Foo" }

\* the match statement without its default case
match_model_type_nodefault(model_type, n_batch) ==
    IF model_type = "LlamaCpp"
    THEN [ raised |-> FALSE, llm |-> << "Llamacpp", n_batch >> ]
    ELSE IF model_type = "GPT4ALL"
    THEN [ raised |-> FALSE, llm |-> << "GPT4All", n_batch >> ]
    ELSE [ raised |-> FALSE, llm |-> << >> ]

\* lines 50-61: the match statement
match_model_type(model_type, n_batch) ==
    IF model_type = "LlamaCpp"
    THEN [ raised |-> FALSE, llm |-> << "Llamacpp", n_batch >> ]
    ELSE IF model_type = "GPT4ALL"
    THEN [ raised |-> FALSE, llm |-> << "GPT4All", n_batch >> ]
    ELSE [ raised |-> TRUE, llm |-> << >> ]

\* what may be typed at the prompt
Alphabet == { " ", "\t", "q" }

Typed == UNION { [ 1..n -> Alphabet ] : n \in 0..MaxLen }

Inputs == Typed \cup { Exit, << " " >> \o Exit, Exit \o << " " >> }

NoError == [ kind |-> "none", names |-> "" ]

\* privateGPT.py has not been started
QAFixed ==
    /\ environ = [ MODEL_TYPE |-> "GPT4ALL", MODEL_N_BATCH |-> str(1),
                   TARGET_SOURCE_CHUNKS |-> str(1) ]
    /\ qa_pc = "Import"
    /\ model_n_batch = 0
    /\ target_source_chunks = 0
    /\ retriever = 0
    /\ llm = << >>
    /\ error = NoError
    /\ query = << >>
    /\ prompts = 0
    /\ retrievals = << >>
    /\ answers = 0

\* privateGPT.py is started under any environment
QAInit ==
    /\ environ \in [ MODEL_TYPE : ModelTypes,
                     MODEL_N_BATCH : { str(n) : n \in 1..MaxConfig },
                     TARGET_SOURCE_CHUNKS : { str(n) : n \in 1..MaxConfig } ]
    /\ qa_pc = "Import"
    /\ model_n_batch = 0
    /\ target_source_chunks = 0
    /\ retriever = 0
    /\ llm = << >>
    /\ error = NoError
    /\ query = << >>
    /\ prompts = 0
    /\ retrievals = << >>
    /\ answers = 0

\* ingest.py is not run
IngestFixed ==
    /\ platform = "posix"
    /\ source_directory = [ p \in Paths |-> "absent" ]
    /\ disk = NoRecords
    /\ db = NoRecords
    /\ collection = NoRecords
    /\ pc = "Idle"
    /\ run = 1
    /\ completed = 0
    /\ ignored_files = {}
    /\ all_files = << >>
    /\ filtered_files = << >>
    /\ remaining = {}
    /\ results = NoRecords
    /\ texts = NoRecords
    /\ exit_status = "running"

\* lines 20-26: the module reads the environment as it is imported
LoadEnvironment ==
    /\ qa_pc = "Import"
    /\ LET b == int(environ.MODEL_N_BATCH, BatchBase)
           c == int(environ.TARGET_SOURCE_CHUNKS, ChunksBase)
       IN  IF b.raised \/ c.raised
           THEN /\ qa_pc' = "Fatal"
                /\ error' = [ kind |-> "ValueError", names |-> "" ]
                /\ UNCHANGED << model_n_batch, target_source_chunks >>
           ELSE /\ qa_pc' = "Main"
                /\ model_n_batch' = b.value
                /\ target_source_chunks' = c.value
                /\ UNCHANGED error
    /\ UNCHANGED << environ, retriever, llm, query, prompts, retrievals,
                    answers >>
    /\ UNCHANGED ingest_vars

\* lines 31-47: the store is opened and the retriever bound to k
BindRetriever ==
    /\ qa_pc = "Main"
    /\ retriever' = target_source_chunks
    /\ qa_pc' = "SelectBackend"
    /\ UNCHANGED << environ, model_n_batch, target_source_chunks, llm, error,
                    query, prompts, retrievals, answers >>
    /\ UNCHANGED ingest_vars

\* lines 50-65: the backend is built, or the model type is refused
SelectBackend ==
    /\ qa_pc = "SelectBackend"
    /\ LET m == match_model_type(environ.MODEL_TYPE, model_n_batch)
       IN  IF m.raised
           THEN /\ qa_pc' = "Fatal"
                /\ error' = [ kind |-> "Exception",
                              names |-> environ.MODEL_TYPE ]
                /\ UNCHANGED llm
           ELSE /\ qa_pc' = "Prompt"
                /\ llm' = m.llm
                /\ UNCHANGED error
    /\ UNCHANGED << environ, model_n_batch, target_source_chunks, retriever,
                    query, prompts, retrievals, answers >>
    /\ UNCHANGED ingest_vars

\* lines 68-77: one input is read; the sentinel ends the loop, a blank
\* input goes back to the prompt, anything else is answered
ReadQuery ==
    /\ qa_pc = "Prompt"
    /\ prompts < MaxQueries
    /\ \E q \in Inputs :
          /\ query' = q
          /\ qa_pc' = IF q = Exit THEN "Exited"
                      ELSE IF strip(q) = << >> THEN "Prompt"
                      ELSE "Answering"
    /\ prompts' = prompts + 1
    /\ UNCHANGED << environ, model_n_batch, target_source_chunks, retriever,
                    llm, error, retrievals, answers >>
    /\ UNCHANGED ingest_vars

\* lines 80-95: qa(query) retrieves k chunks and generates; the answer and
\* its sources are printed
Answer ==
    /\ qa_pc = "Answering"
    /\ retrievals' = Append(retrievals, retriever)
    /\ answers' = answers + 1
    /\ qa_pc' = "Prompt"
    /\ UNCHANGED << environ, model_n_batch, target_source_chunks, retriever,
                    llm, error, query, prompts >>
    /\ UNCHANGED ingest_vars

(***************************************************************************)
(* The specifications: Spec is ingest.py run up to MaxRuns times on one    *)
(* source root, SpecQA is one session of privateGPT.py.                    *)
(***************************************************************************)
Init == IngestInit /\ QAFixed

Next ==
    \/ Start
    \/ Discover
    \/ Filter
    \/ LoadOne
    \/ LoadDone
    \/ Split
    \/ AddDocuments
    \/ AddFails
    \/ Persist
    \/ NextRun

Spec == Init /\ [][Next]_vars

InitQA == IngestFixed /\ QAInit

NextQA ==
    \/ LoadEnvironment
    \/ BindRetriever
    \/ SelectBackend
    \/ ReadQuery
    \/ Answer

SpecQA == InitQA /\ [][NextQA]_vars

(***************************************************************************)
(* Properties of ingest.py, checked under Spec.                            *)
(***************************************************************************)
Count(files, p) == Cardinality({ i \in DOMAIN files : files[i] = p })

\* C1: once the files are handed to the loaders, their set is the set of
\* discovered files minus the sources of the records the store held when
\* the run opened it (append mode), and the whole discovered set when the
\* store held no record (create mode).
C1_LoadedIsDiscoveredMinusKnown ==
    pc \in { "Loading", "Chunking", "Embedding", "Persisting", "Done" } =>
        /\ Range(filtered_files) =
              IF \E p \in Paths : collection[p] > 0
              THEN Range(all_files) \ { p \in Paths : collection[p] > 0 }
              ELSE Range(all_files)
        /\ \A p \in Paths : results[p] > 0 => p \in Range(filtered_files)
        /\ pc # "Loading" =>
              \A p \in Range(filtered_files) :
                 results[p] = Count(filtered_files, p)
                              * DocumentsOf(source_directory[p])

\* an append-mode run that loaded some discovered files and skipped others
C1_Witness ==
    /\ pc = "Chunking"
    /\ \E p \in Paths : collection[p] > 0
    /\ Range(filtered_files) # {}
    /\ Range(filtered_files) # Range(all_files)

\* C2: once one run has completed on the source root, no later run on the
\* same root changes the records of the store, opened or persisted: the
\* known sources and the record count stay as they are, and no source has
\* records added again.
C2_LaterRunsAddNothing ==
    [][ completed >= 1 => (db' = db /\ disk' = disk) ]_vars

\* a second completed run found every file already ingested by a run
C2_Witness ==
    /\ completed >= 2
    /\ pc = "NothingNew"
    /\ \E p \in Range(all_files) : db[p] > MaxStored

\* C3: a loader that raises does not end the run.
C3_LoadFailureDoesNotAbort ==
    [][ pc = "Loading" => pc' # "Aborted" ]_vars

\* C4: a scan that yields no Document ends the run with the "nothing new"
\* outcome and status 0, nothing chunked, added or persisted: the store is
\* as the run found it; and a run goes past loading only with a Document.
C4_NothingNewLeavesStore ==
    /\ pc = "NothingNew" =>
          /\ exit_status = 0
          /\ \A p \in Paths : results[p] = 0
          /\ texts = NoRecords
          /\ db = collection
          /\ disk = collection
    /\ pc \in { "Chunking", "Embedding", "Persisting", "Done" } =>
          \E p \in Paths : results[p] > 0

\* an append-mode run whose discovered files were all ingested before
C4_Witness ==
    /\ pc = "NothingNew"
    /\ all_files # << >>
    /\ filtered_files = << >>
    /\ \E p \in Paths : collection[p] > 0

\* C7: when the run reports completion, the records it added have been
\* persisted.
C7_PersistedBeforeCompletion ==
    pc = "Done" => (disk = db /\ exit_status = 0)

\* a completed run that added records
C7_Witness ==
    /\ pc = "Done"
    /\ db # collection

\* C8: every present file whose extension is registered, compared without
\* regard to case, and that is not in the ignore-list, is discovered and
\* handed to the loaders exactly once.
C8_EverySpellingDiscoveredOnce ==
    pc \in { "Loading", "Chunking", "Embedding", "Persisting", "Done" } =>
        \A p \in Present :
            ( /\ (<< "." >> \o lower(rsplit_last(p))) \in DOMAIN LOADER_MAPPING
              /\ p \notin ignored_files )
            => Count(filtered_files, p) = 1

Rank(phase) ==
    CASE phase = "Idle" -> 0
      [] phase = "Scanning" -> 1
      [] phase = "Deduplicating" -> 2
      [] phase = "Loading" -> 3
      [] phase = "Chunking" -> 4
      [] phase = "Embedding" -> 5
      [] phase = "Persisting" -> 6
      [] OTHER -> 7

\* C9: within a run the phases follow the order Idle, Scanning,
\* Deduplicating, (loading,) Chunking, Embedding, Persisting, Done: the
\* files are discovered only while scanning, filtered only while
\* deduplicating, loaded only after that, chunked only after loading,
\* records are written only while embedding, persisted only while
\* persisting, and a run that has ended stays ended.
C9_PhasesInOrder ==
    [][ run' = run =>
          /\ Rank(pc') >= Rank(pc)
          /\ Rank(pc) = 7 => pc' = pc
          /\ all_files' # all_files => pc = "Scanning"
          /\ filtered_files' # filtered_files => pc = "Deduplicating"
          /\ results' # results => pc = "Loading"
          /\ texts' # texts => pc = "Chunking"
          /\ db' # db => pc = "Embedding"
          /\ disk' # disk => pc = "Persisting" ]_vars

\* a later run that went through every phase and wrote records
C9_Witness ==
    /\ pc = "Done"
    /\ run >= 2
    /\ texts # NoRecords

(***************************************************************************)
(* Properties of privateGPT.py, checked under SpecQA.                      *)
(***************************************************************************)
IsBlank(q) == \A i \in DOMAIN q : q[i] \in { " ", "\t", "\n", "\r" }

C6_BlankInputIsNoOp ==
    [][ /\ (prompts' = prompts + 1 /\ IsBlank(query')) =>
              /\ qa_pc' = "Prompt"
              /\ retrievals' = retrievals
              /\ answers' = answers
        /\ qa_pc' = "Answering" => ~IsBlank(query')
        /\ qa_pc' = "Exited" => ~IsBlank(query') ]_vars

\* a whitespace-only input read after an answered query, the loop alive
C6_Witness ==
    /\ qa_pc = "Prompt"
    /\ prompts = 2
    /\ answers = 1
    /\ query = << " ", "\t" >>

\* C10: once the environment is read, the batch size and the number of
\* retrieved chunks are the integers whose decimal text the environment
\* holds, start-up has not failed on them, and every retrieval used that k.
C10_ConfiguredNumbersAreUsed ==
    qa_pc # "Import" =>
        /\ error.kind # "ValueError"
        /\ environ.TARGET_SOURCE_CHUNKS = str(target_source_chunks)
        /\ environ.MODEL_N_BATCH = str(model_n_batch)
        /\ \A i \in DOMAIN retrievals :
              environ.TARGET_SOURCE_CHUNKS = str(retrievals[i])

====
